---- MODULE Spec2Model ----
(***************************************************************************)
(* World of Doors voice bot: the call session life cycle (main.py, bot.py), *)
(* the dynamic conversation flow with its process-wide context              *)
(* (flows/world_of_doors_flow.py) and the bot.state handlers with the       *)
(* per-node flow configuration (handlers/appointment_handlers.py,           *)
(* flows/appointment_flow.py).                                              *)
(*                                                                          *)
(* Python values are modelled as strings; None is the string "None".  A     *)
(* dict is a function whose DOMAIN is the set of keys present.              *)
(***************************************************************************)
EXTENDS Integers, FiniteSets, Sequences, TLC

(***************************************************************************)
(* Bounds of the model.                                                     *)
(***************************************************************************)
\* POST /end-call requests issued over one run of the model.
MaxEndCalls == 2

(***************************************************************************)
(* Values.                                                                  *)
(***************************************************************************)
None == "None"

\* The CallSids of the calls that ring in.
Calls == {"CA1", "CA2"}

\* What the caller of each call says about themselves.
PhoneOf == [c \in Calls |-> IF c = "CA1" THEN "+15550001" ELSE "+15550002"]
NameOf == [c \in Calls |-> IF c = "CA1" THEN "Ann Lee" ELSE "Bob Roy"]
AddressOf == [c \in Calls |-> IF c = "CA1" THEN "1 Elm St" ELSE "2 Oak St"]

\* Python truthiness of a string-or-None value.
Truthy(v) == v # None /\ v # ""

\* dict helpers
EmptyDict == [k \in {} |-> None]
Put(d, k, v) == [x \in DOMAIN d \cup {k} |-> IF x = k THEN v ELSE d[x]]
Get(d, k, default) == IF k \in DOMAIN d THEN d[k] ELSE default

(***************************************************************************)
(* String functions of the Python runtime, computed on the characters.      *)
(***************************************************************************)
\* sub in s
Contains(sub, s) ==
    \E i \in 1..(Len(s) + 1 - Len(sub)) : SubSeq(s, i, i + Len(sub) - 1) = sub

RECURSIVE RemoveSpaces(_)
\* s.replace(' ', '')
RemoveSpaces(s) ==
    IF Len(s) = 0 THEN ""
    ELSE (IF Head(s) = " " THEN "" ELSE Head(s)) \o RemoveSpaces(Tail(s))

\* s.replace('Z', '+00:00') on a timestamp, where Z can only be the last character
ReplaceZ(s) ==
    IF Len(s) > 0 /\ SubSeq(s, Len(s), Len(s)) = "Z"
    THEN SubSeq(s, 1, Len(s) - 1) \o "+00:00"
    ELSE s

Digits == {"0", "1", "2", "3", "4", "5", "6", "7", "8", "9"}
IsDigits(s) == \A i \in 1..Len(s) : SubSeq(s, i, i) \in Digits

\* Whether datetime.fromisoformat accepts s: YYYY-MM-DD alone, or followed by a
\* separator and HH:MM[:SS[.ffffff]] and an optional +HH:MM offset.
IsoDate(d) ==
    /\ Len(d) = 10
    /\ IsDigits(SubSeq(d, 1, 4)) /\ SubSeq(d, 5, 5) = "-"
    /\ IsDigits(SubSeq(d, 6, 7)) /\ SubSeq(d, 8, 8) = "-"
    /\ IsDigits(SubSeq(d, 9, 10))
IsoOffset(t) ==
    \/ t = ""
    \/ /\ Len(t) = 6 /\ SubSeq(t, 1, 1) \in {"+", "-"}
       /\ IsDigits(SubSeq(t, 2, 3)) /\ SubSeq(t, 4, 4) = ":"
       /\ IsDigits(SubSeq(t, 5, 6))
IsoSeconds(t) ==
    \/ IsoOffset(t)
    \/ /\ Len(t) >= 3 /\ SubSeq(t, 1, 1) = ":" /\ IsDigits(SubSeq(t, 2, 3))
       /\ LET u == SubSeq(t, 4, Len(t)) IN
            \/ IsoOffset(u)
            \/ /\ Len(u) >= 4 /\ SubSeq(u, 1, 1) = "." /\ IsDigits(SubSeq(u, 2, 4))
               /\ \/ IsoOffset(SubSeq(u, 5, Len(u)))
                  \/ /\ Len(u) >= 7 /\ IsDigits(SubSeq(u, 5, 7))
                     /\ IsoOffset(SubSeq(u, 8, Len(u)))
IsoTime(t) ==
    /\ Len(t) >= 5
    /\ IsDigits(SubSeq(t, 1, 2)) /\ SubSeq(t, 3, 3) = ":"
    /\ IsDigits(SubSeq(t, 4, 5))
    /\ IsoSeconds(SubSeq(t, 6, Len(t)))
IsoParseable(s) ==
    /\ Len(s) >= 10
    /\ IsoDate(SubSeq(s, 1, 10))
    /\ \/ Len(s) = 10
       \/ /\ Len(s) >= 12
          /\ SubSeq(s, 11, 11) \in {"T", " "}
          /\ IsoTime(SubSeq(s, 12, Len(s)))

\* int() of a string of two digits
DigitValue(ch) ==
    CASE ch = "0" -> 0 [] ch = "1" -> 1 [] ch = "2" -> 2 [] ch = "3" -> 3
      [] ch = "4" -> 4 [] ch = "5" -> 5 [] ch = "6" -> 6 [] ch = "7" -> 7
      [] ch = "8" -> 8 [] ch = "9" -> 9
TwoDigits(s) == 10 * DigitValue(SubSeq(s, 1, 1)) + DigitValue(SubSeq(s, 2, 2))

\* datetime.now() of the model, as isoformat() prints it.
NowIso == "2025-10-24T10:00:00"
\* (datetime.now() + timedelta(days=2)).isoformat()
NowPlusTwoDaysIso == "2025-10-26T10:00:00"

\* (appointment_time - now).total_seconds() / 3600 for two parsed timestamps of
\* the same month on the full hour (all timestamps of the model are).
HoursBetween(now, ts) ==
    (TwoDigits(SubSeq(ts, 9, 10)) - TwoDigits(SubSeq(now, 9, 10))) * 24
      + (TwoDigits(SubSeq(ts, 12, 13)) - TwoDigits(SubSeq(now, 12, 13)))

(***************************************************************************)
(* State.                                                                   *)
(***************************************************************************)
VARIABLES
    active_bots,    \* main.py active_bots: the CallSids with a bot entry
    pc,             \* per call: where spawn_bot / WorldOfDoorsBot.run stands
    state,          \* per call: WorldOfDoorsBot.state
    session,        \* per call: WorldOfDoorsAPIClient.session of the bot's client
    task,           \* per call: the PipelineTask created by setup
    node,           \* per call: the active node of the flow
    result,         \* per call: the Result the last handler returned
    api_client,     \* world_of_doors_flow._api_client (process-wide)
    flow_task,      \* world_of_doors_flow._task (process-wide)
    flow_context,   \* world_of_doors_flow._flow_context (process-wide)
    requests,       \* appointment requests the gateway has received
    outcome_evals,  \* per call: evaluations of determine_outcome
    end_calls,      \* POST /end-call requests served
    last_completed  \* per call: the last domain action a handler completed

vars == <<active_bots, pc, state, session, task, node, result, api_client,
          flow_task, flow_context, requests, outcome_evals, end_calls,
          last_completed>>

\* WorldOfDoorsBot.__init__: the session state of a new bot.
InitialState ==
    [confirmation_number |-> None,
     appointment |-> None,
     appointment_id |-> None,
     selected_slot |-> None,
     service_type |-> None,
     outcome |-> "NO_RESPONSE"]

\* A handler's Result: the function that ran, its boolean field (booked,
\* available, within_24_hours; None when it has none, "raised" when the handler
\* raised instead of returning) and the number of alternative_times it offers.
Result(fn, flag, alternatives) ==
    [fn |-> fn, flag |-> flag, alternatives |-> alternatives]
NoResult == Result(None, None, 0)

\* The domain action a handler's result completes: a booking, a reschedule, a
\* cancellation or the decision to keep the appointment; prev when none.
DomainAction(fn, flag, prev) ==
    CASE fn \in {"confirm_booking", "confirm_and_book"} /\ flag = "true" -> "booked"
      [] fn = "reschedule_to_new_time" /\ flag = "true" -> "rescheduled"
      [] fn = "proceed_with_cancel" /\ flag \in {None, "true"} -> "cancelled"
      [] fn = "keep_appointment" -> "kept"
      [] OTHER -> prev

(***************************************************************************)
(* The process-wide flow context of world_of_doors_flow.py.                *)
(***************************************************************************)
\* get_context(key, default)
get_context(key, default) == Get(flow_context, key, default)
\* set_context as dict.setdefault: a key that is already set keeps its value.
set_context_keeps_first(d, key, value) ==
    IF key \in DOMAIN d THEN d ELSE Put(d, key, value)
\* set_context(key, value) applied to a context d
set_context(d, key, value) == Put(d, key, value)
\* clear_context()
clear_context == EmptyDict

(***************************************************************************)
(* The scheduling backend, as the gateway client sees it.                   *)
(***************************************************************************)
\* The id of the contact the backend holds (or creates) for a phone number.
ContactIdOf(phone) == "contact:" \o phone
\* The appointment the backend creates on a POST /appointments of call c.
NewAppointmentId(c) == "appt:" \o c
NewConfirmationNumber(c) == "WOD:" \o c
\* The confirmation number of the local fallback, "WOD" + now as %Y%m%d%H%M%S.
MockConfirmationNumber == "WOD20251024100000"

Request(c, op, id, contact, name, stype) ==
    [call |-> c, op |-> op, appointment_id |-> id, contactId |-> contact,
     customerName |-> name, serviceType |-> stype]

(***************************************************************************)
(* WorldOfDoorsBot.determine_outcome and cleanup (bot.py).                  *)
(***************************************************************************)
determine_outcome(st) ==
    IF Truthy(st.confirmation_number) THEN "BOOKED"
    ELSE IF Truthy(st.appointment) THEN "RESCHEDULED"
    ELSE st.outcome

\* The body of WorldOfDoorsBot.cleanup: the outcome is determined and stored,
\* the gateway client is closed.
CleanupBody(c) ==
    /\ state' = [state EXCEPT ![c].outcome = determine_outcome(state[c])]
    /\ outcome_evals' = [outcome_evals EXCEPT ![c] = @ + 1]
    /\ session' = [session EXCEPT ![c] = None]

(***************************************************************************)
(* The call session: main.py spawn_bot / end_call, bot.py run / setup.      *)
(***************************************************************************)
\* spawn_bot up to `await bot.run()`: the bot is constructed and registered.
SpawnBot(c) ==
    /\ pc[c] = "idle"
    /\ pc' = [pc EXCEPT ![c] = "created"]
    /\ state' = [state EXCEPT ![c] = InitialState]
    /\ active_bots' = active_bots \cup {c}
    /\ UNCHANGED <<session, task, node, result, api_client, flow_task,
                   flow_context, requests, outcome_evals, end_calls,
                   last_completed>>

\* run: setup() creates the task and publishes client and task in the flow
\* module's globals, _lookup_contact calls the gateway on the bot's own client,
\* and runner.run(task) starts the pipeline.
RunSetup(c) ==
    /\ pc[c] = "created"
    /\ pc' = [pc EXCEPT ![c] = "running"]
    /\ api_client' = c
    /\ flow_task' = c
    /\ task' = [task EXCEPT ![c] = "running"]
    /\ session' = [session EXCEPT ![c] = "open"]
    /\ UNCHANGED <<active_bots, state, node, result, flow_context, requests,
                   outcome_evals, end_calls,
                   last_completed>>

\* run: setup() raises (a service cannot be constructed); the finally clause runs.
RunSetupFails(c) ==
    /\ pc[c] = "created"
    /\ pc' = [pc EXCEPT ![c] = "cleanup"]
    /\ UNCHANGED <<active_bots, state, session, task, node, result, api_client,
                   flow_task, flow_context, requests, outcome_evals, end_calls,
                   last_completed>>

\* on_client_disconnected: task.cancel() on the session's own task.
ClientDisconnected(c) ==
    /\ pc[c] = "running"
    /\ task[c] = "running"
    /\ task' = [task EXCEPT ![c] = "cancelled"]
    /\ UNCHANGED <<active_bots, pc, state, session, node, result, api_client,
                   flow_task, flow_context, requests, outcome_evals, end_calls,
                   last_completed>>

\* run: runner.run(task) returns after the EndFrame or the cancellation; the
\* finally clause runs next.
RunnerReturns(c) ==
    /\ pc[c] = "running"
    /\ task[c] \in {"ending", "cancelled"}
    /\ pc' = [pc EXCEPT ![c] = "cleanup"]
    /\ task' = [task EXCEPT ![c] = IF @ = "ending" THEN "ended" ELSE @]
    /\ UNCHANGED <<active_bots, state, session, node, result, api_client,
                   flow_task, flow_context, requests, outcome_evals, end_calls,
                   last_completed>>

\* run: runner.run(task) raises; the finally clause runs, then the exception
\* is re-raised to spawn_bot.
RunnerRaises(c) ==
    /\ pc[c] = "running"
    /\ task[c] = "running"
    /\ pc' = [pc EXCEPT ![c] = "cleanup"]
    /\ task' = [task EXCEPT ![c] = "failed"]
    /\ UNCHANGED <<active_bots, state, session, node, result, api_client,
                   flow_task, flow_context, requests, outcome_evals, end_calls,
                   last_completed>>

\* A run whose finally clause does not call cleanup: the variant of RunFinally
\* that CleanupOnEveryExit has to tell apart from the code's.
RunFinallyWithoutCleanup(c) ==
    /\ pc[c] = "cleanup"
    /\ pc' = [pc EXCEPT ![c] = "cleaned"]
    /\ UNCHANGED <<active_bots, state, session, task, node, result, api_client,
                   flow_task, flow_context, requests, outcome_evals, end_calls,
                   last_completed>>

\* run: finally: await self.cleanup()
RunFinally(c) ==
    /\ pc[c] = "cleanup"
    /\ CleanupBody(c)
    /\ pc' = [pc EXCEPT ![c] = "cleaned"]
    /\ UNCHANGED <<active_bots, task, node, result, api_client, flow_task,
                   flow_context, requests, end_calls,
                   last_completed>>

\* spawn_bot: finally: the bot's entry is deleted.
SpawnFinally(c) ==
    /\ pc[c] = "cleaned"
    /\ pc' = [pc EXCEPT ![c] = "done"]
    /\ active_bots' = active_bots \ {c}
    /\ UNCHANGED <<state, session, task, node, result, api_client, flow_task,
                   flow_context, requests, outcome_evals, end_calls,
                   last_completed>>

\* POST /end-call/{call_sid}: cleanup() of the registered bot, nothing else.
EndCall(c) ==
    /\ c \in active_bots
    /\ end_calls < MaxEndCalls
    /\ end_calls' = end_calls + 1
    /\ CleanupBody(c)
    /\ UNCHANGED <<active_bots, pc, task, node, result, api_client, flow_task,
                   flow_context, requests,
                   last_completed>>

(***************************************************************************)
(* The dynamic flow of world_of_doors_flow.py: nodes and their functions.   *)
(***************************************************************************)
\* The node a handler's (result, None) leads to: no further node.
Terminal == "terminal"

\* "functions" of each create_*_node, by node name.
NodeFunctions(n) ==
    CASE n = "start" -> {"new_appointment", "reschedule_appointment",
                         "cancel_appointment", "product_info"}
      [] n = "service_type" -> {"collect_service_type"}
      [] n = "customer_info" -> {"collect_customer_info"}
      [] n = "schedule_appointment" -> {"check_availability"}
      [] n = "confirm_appointment" -> {"confirm_booking"}
      [] n = "appointment_confirmed" -> {"end_conversation"}
      [] n = "no_availability" -> {"check_availability", "end_conversation"}
      [] n = "reschedule_lookup" -> {"lookup_reschedule"}
      [] n = "reschedule_new_time" -> {"reschedule_to_new_time"}
      [] n = "cancel_lookup" -> {"lookup_cancel"}
      [] n = "cancel_decision" -> {"proceed_with_cancel", "reschedule_appointment",
                                   "keep_appointment"}
      [] n = "cancellation_confirmed" -> {"end_conversation"}
      [] n = "product_info" -> {"product_inquiry_action"}
      [] OTHER -> {}

\* The flow manager dispatches fn for call c: the pipeline of the call is
\* running and fn is a function of the call's active node.
Dispatch(c, fn) ==
    /\ pc[c] = "running"
    /\ task[c] = "running"
    /\ fn \in NodeFunctions(node[c])

\* A gateway call goes through the client get_api_client() returns, whose
\* _request opens the client's session when it has none.
UsesClient ==
    IF api_client = None THEN UNCHANGED session
    ELSE session' = [session EXCEPT ![api_client] = "open"]

\* lookup_or_create_contact: the contact id found, or None.
LookupContact(phone) ==
    IF api_client = None THEN {None} ELSE {None, ContactIdOf(phone)}

\* on_participant_joined initializing the flow with create_service_type_node
\* instead of create_initial_node.
ParticipantJoinedAtServiceType(c, contact) ==
    /\ pc[c] = "running"
    /\ task[c] = "running"
    /\ node[c] = None
    /\ contact \in LookupContact(PhoneOf[c])
    /\ flow_context' =
           IF contact # None
           THEN set_context(set_context(set_context(flow_context,
                    "caller_phone", PhoneOf[c]),
                    "contact_id", contact),
                    "existing_contact", contact)
           ELSE set_context(flow_context, "caller_phone", PhoneOf[c])
    /\ UsesClient
    /\ node' = [node EXCEPT ![c] = "service_type"]
    /\ UNCHANGED <<active_bots, pc, state, task, result, api_client, flow_task,
                   requests, outcome_evals, end_calls,
                   last_completed>>

\* on_participant_joined: initialize_caller_context, then the flow is
\* initialized with create_initial_node.
ParticipantJoined(c, contact) ==
    /\ pc[c] = "running"
    /\ task[c] = "running"
    /\ node[c] = None
    /\ contact \in LookupContact(PhoneOf[c])
    /\ flow_context' =
           IF contact # None
           THEN set_context(set_context(set_context(flow_context,
                    "caller_phone", PhoneOf[c]),
                    "contact_id", contact),
                    "existing_contact", contact)
           ELSE set_context(flow_context, "caller_phone", PhoneOf[c])
    /\ UsesClient
    /\ node' = [node EXCEPT ![c] = "start"]
    /\ UNCHANGED <<active_bots, pc, state, task, result, api_client, flow_task,
                   requests, outcome_evals, end_calls,
                   last_completed>>

\* A handler that only returns its result and the next node.
Goto(c, fn, flag, next) ==
    /\ node' = [node EXCEPT ![c] = next]
    /\ result' = [result EXCEPT ![c] = Result(fn, flag, 0)]
    /\ last_completed' = [last_completed EXCEPT ![c] = DomainAction(fn, flag, @)]
    /\ UNCHANGED <<active_bots, pc, state, api_client, flow_task,
                   outcome_evals, end_calls>>

handle_new_appointment(c) ==
    /\ Dispatch(c, "new_appointment")
    /\ Goto(c, "new_appointment", None, "service_type")
    /\ UNCHANGED <<session, task, flow_context, requests>>

handle_reschedule_request(c) ==
    /\ Dispatch(c, "reschedule_appointment")
    /\ Goto(c, "reschedule_appointment", None, "reschedule_lookup")
    /\ UNCHANGED <<session, task, flow_context, requests>>

\* handle_cancel_request returning create_cancel_decision_node, the lookup
\* skipped.
handle_cancel_request_skips_lookup(c) ==
    /\ Dispatch(c, "cancel_appointment")
    /\ Goto(c, "cancel_appointment", None, "cancel_decision")
    /\ UNCHANGED <<session, task, flow_context, requests>>

handle_cancel_request(c) ==
    /\ Dispatch(c, "cancel_appointment")
    /\ Goto(c, "cancel_appointment", None, "cancel_lookup")
    /\ UNCHANGED <<session, task, flow_context, requests>>

handle_product_info_request(c) ==
    /\ Dispatch(c, "product_info")
    /\ Goto(c, "product_info", None, "product_info")
    /\ UNCHANGED <<session, task, flow_context, requests>>

\* service_type_schema: the enum of service_type
ServiceTypeEnum == {"repair", "installation", "maintenance", "inspection"}
IssueDescriptions == {None, "door is stuck"}

collect_service_type(c, service_type, issue_description) ==
    /\ Dispatch(c, "collect_service_type")
    /\ flow_context' = set_context(set_context(flow_context,
                             "service_type", service_type),
                             "issue_description", issue_description)
    /\ Goto(c, "collect_service_type", None, "customer_info")
    /\ UNCHANGED <<session, task, requests>>

\* create_or_update_contact: the contact found or created, or None when the
\* gateway answers neither request (or there is no client).
CreateOrUpdateContact(phone) ==
    IF api_client = None THEN {None} ELSE {None, ContactIdOf(phone)}

\* The names a caller may give: their own, or nothing the model understood.
CustomerNames(c) == {NameOf[c], ""}

\* collect_customer_info asking again when the contact could not be looked up
\* or created.
collect_customer_info_needs_contact(c, customer_name, contact) ==
    /\ Dispatch(c, "collect_customer_info")
    /\ contact \in CreateOrUpdateContact(PhoneOf[c])
    /\ LET stored == set_context(set_context(set_context(set_context(flow_context,
                           "customer_name", customer_name),
                           "phone_number", PhoneOf[c]),
                           "email", None),
                           "service_address", AddressOf[c])
         IN flow_context' = IF Truthy(contact)
                            THEN set_context(stored, "contact_id", contact)
                            ELSE stored
    /\ UsesClient
    /\ Goto(c, "collect_customer_info", None,
            IF Truthy(contact) THEN "schedule_appointment" ELSE "customer_info")
    /\ UNCHANGED <<task, requests>>

collect_customer_info(c, customer_name, contact) ==
    /\ Dispatch(c, "collect_customer_info")
    /\ contact \in CreateOrUpdateContact(PhoneOf[c])
    /\ LET stored == set_context(set_context(set_context(set_context(flow_context,
                           "customer_name", customer_name),
                           "phone_number", PhoneOf[c]),
                           "email", None),
                           "service_address", AddressOf[c])
         IN flow_context' = IF Truthy(contact)
                            THEN set_context(stored, "contact_id", contact)
                            ELSE stored
    /\ UsesClient
    /\ Goto(c, "collect_customer_info", None, "schedule_appointment")
    /\ UNCHANGED <<task, requests>>

\* check_availability arguments and gateway answers.
PreferredDates == {"2025-10-25"}
PreferredTimes == {"14:00", "2:00 PM", "19:00"}
SlotStarts == {"2025-10-25T09:00:00", "2025-10-25T14:00:00", "2025-10-25T14:30:00"}
SlotLists ==
    {<<>>} \cup {<<a>> : a \in SlotStarts}
           \cup {<<p[1], p[2]>> : p \in {q \in SlotStarts \X SlotStarts : q[1] # q[2]}}
\* What api_client.check_availability gives: absent (None), a body that makes
\* the handler raise, or {available, slots}.
AvailabilityAnswers ==
    {[kind |-> "absent", available |-> FALSE, slots |-> <<>>],
     [kind |-> "malformed", available |-> FALSE, slots |-> <<>>],
     [kind |-> "json", available |-> FALSE, slots |-> <<>>]}
    \cup {[kind |-> "json", available |-> TRUE, slots |-> l] : l \in SlotLists}

\* The loop of check_availability_and_schedule without its break: the last
\* slot whose start contains preferred_time, else the first of the list.
SelectLastMatchingSlot(slots, preferred_time) ==
    LET matching == {i \in 1..Len(slots) : Contains(preferred_time, slots[i])}
    IN IF matching = {} THEN slots[1]
       ELSE slots[CHOOSE i \in matching : \A j \in matching : i >= j]

\* The slot the loop of check_availability_and_schedule selects: the first
\* whose start contains preferred_time, else the first of the list.
SelectSlot(slots, preferred_time) ==
    LET matching == {i \in 1..Len(slots) : Contains(preferred_time, slots[i])}
    IN IF matching = {} THEN slots[1]
       ELSE slots[CHOOSE i \in matching : \A j \in matching : i <= j]

\* The mock branch of check_availability_and_schedule.
BookedTimes == {"7:00 PM", "8:00 PM", "19:00", "20:00"}
MockSelectedDatetime(preferred_date, preferred_time) ==
    preferred_date \o "T" \o RemoveSpaces(preferred_time) \o ":00"

\* check_availability_and_schedule taking "available" alone as the sign of a
\* slot: an available answer without slots leads on to the confirmation.
CheckAvailabilityTrustsAvailable(answer, preferred_date, preferred_time) ==
    IF answer.kind = "json" /\ answer.available
    THEN [selected |-> IF Len(answer.slots) > 0
                       THEN SelectSlot(answer.slots, preferred_time) ELSE None,
          alternatives |-> 0, next |-> "confirm_appointment"]
    ELSE [selected |-> None, alternatives |-> 4, next |-> "no_availability"]

\* The outcome of check_availability_and_schedule for one gateway answer:
\* selected (the datetime stored, None when nothing is stored), the number of
\* alternative times and the next node.
CheckAvailabilityOutcome(answer, preferred_date, preferred_time) ==
    IF api_client # None /\ answer.kind # "malformed"
    THEN IF answer.kind = "json" /\ answer.available /\ Len(answer.slots) > 0
         THEN [selected |-> SelectSlot(answer.slots, preferred_time),
               alternatives |-> 0, next |-> "confirm_appointment"]
         ELSE [selected |-> None, alternatives |-> 4, next |-> "no_availability"]
    ELSE IF preferred_time \notin BookedTimes
         THEN [selected |-> MockSelectedDatetime(preferred_date, preferred_time),
               alternatives |-> 0, next |-> "confirm_appointment"]
         ELSE [selected |-> None, alternatives |-> 5, next |-> "no_availability"]

check_availability_and_schedule(c, answer, preferred_date, preferred_time) ==
    /\ Dispatch(c, "check_availability")
    /\ LET out == CheckAvailabilityOutcome(answer, preferred_date, preferred_time)
         IN /\ flow_context' =
                 IF out.selected # None
                 THEN set_context(flow_context, "selected_datetime", out.selected)
                 ELSE flow_context
            /\ node' = [node EXCEPT ![c] = out.next]
            /\ result' = [result EXCEPT ![c] =
                 Result("check_availability",
                        IF out.selected # None THEN "true" ELSE "false",
                        out.alternatives)]
    /\ UsesClient
    /\ UNCHANGED <<active_bots, pc, state, task, api_client, flow_task, requests,
                   outcome_evals, end_calls, last_completed>>

\* str.upper() on the service types
Upper(s) ==
    CASE s = "repair" -> "REPAIR"
      [] s = "installation" -> "INSTALLATION"
      [] s = "maintenance" -> "MAINTENANCE"
      [] s = "inspection" -> "INSPECTION"
      [] OTHER -> s

\* What api_client.create_appointment / update_appointment / cancel_appointment
\* give: the appointment, or absent (None).
GatewayAnswers == {"absent", "appointment"}

\* confirm_and_book_appointment, its three ways out:
\*   missing context      -> booked=False, back to schedule_appointment
\*   fromisoformat raises  -> the handler raises, no (result, next node)
\*   else                  -> booked=True, appointment_confirmed
confirm_and_book_appointment(c, answer) ==
    /\ Dispatch(c, "confirm_booking")
    /\ LET service_type == get_context("service_type", "REPAIR")
           customer_name == get_context("customer_name", None)
           phone_number == get_context("phone_number", None)
           selected_datetime == get_context("selected_datetime", None)
           contact_id == get_context("contact_id", None)
       IN IF ~(Truthy(customer_name) /\ Truthy(phone_number) /\ Truthy(selected_datetime))
          THEN /\ Goto(c, "confirm_booking", "false", "schedule_appointment")
               /\ UNCHANGED <<session, task, flow_context, requests>>
          ELSE IF ~IsoParseable(ReplaceZ(selected_datetime))
          THEN /\ result' = [result EXCEPT ![c] = Result("confirm_booking", "raised", 0)]
               /\ UNCHANGED <<active_bots, pc, state, session, task, node, api_client,
                              flow_task, flow_context, requests, outcome_evals, end_calls,
                              last_completed>>
          ELSE /\ IF api_client # None /\ answer = "appointment"
                    THEN flow_context' = set_context(set_context(flow_context,
                             "appointment_id", NewAppointmentId(c)),
                             "confirmation_number", NewConfirmationNumber(c))
                    ELSE flow_context' = set_context(flow_context,
                             "confirmation_number", MockConfirmationNumber)
               /\ requests' =
                    IF api_client = None THEN requests
                    ELSE requests \cup
                           {IF Truthy(contact_id)
                            THEN Request(c, "createAppointment", None, contact_id,
                                         None, Upper(service_type))
                            ELSE Request(c, "createAppointment", None, None,
                                         customer_name, Upper(service_type))}
               /\ UsesClient
               /\ Goto(c, "confirm_booking", "true", "appointment_confirmed")
               /\ UNCHANGED task

\* calculate_hours_until of world_of_doors_flow.py: 999 when the timestamp
\* does not parse.
calculate_hours_until(scheduled_time) ==
    IF IsoParseable(ReplaceZ(scheduled_time))
    THEN HoursBetween(NowIso, ReplaceZ(scheduled_time))
    ELSE 999

\* Both lookups use the mock appointment time now + 2 days.
MockWithin24h == calculate_hours_until(NowPlusTwoDaysIso) < 24

lookup_and_check_reschedule(c) ==
    /\ Dispatch(c, "lookup_reschedule")
    /\ flow_context' = set_context(set_context(flow_context,
                           "lookup_name", NameOf[c]), "lookup_phone", PhoneOf[c])
    /\ Goto(c, "lookup_reschedule", IF MockWithin24h THEN "true" ELSE "false",
            "reschedule_new_time")
    /\ UNCHANGED <<session, task, requests>>

lookup_and_check_cancel(c) ==
    /\ Dispatch(c, "lookup_cancel")
    /\ flow_context' = set_context(set_context(flow_context,
                           "lookup_name", NameOf[c]), "lookup_phone", PhoneOf[c])
    /\ Goto(c, "lookup_cancel", IF MockWithin24h THEN "true" ELSE "false",
            "cancel_decision")
    /\ UNCHANGED <<session, task, requests>>

NewDatetimes == {"2025-10-27T10:00:00", "next tuesday at ten"}

\* reschedule_to_new_time refusing the new time when the gateway did not update
\* the appointment, as reschedule_appointment of appointment_handlers.py does.
reschedule_to_new_time_needs_update(c, new_datetime, answer) ==
    /\ Dispatch(c, "reschedule_to_new_time")
    /\ LET appointment_id == get_context("appointment_id", None)
           called == api_client # None /\ Truthy(appointment_id)
       IN IF ~IsoParseable(ReplaceZ(new_datetime)) \/ (called /\ answer # "appointment")
          THEN /\ node' = [node EXCEPT ![c] = "reschedule_new_time"]
               /\ result' = [result EXCEPT ![c] = Result("reschedule_to_new_time", "false", 3)]
               /\ IF IsoParseable(ReplaceZ(new_datetime))
                  THEN /\ requests' = requests \cup
                            {Request(c, "updateAppointment", appointment_id, None, None, None)}
                       /\ UsesClient
                  ELSE UNCHANGED <<requests, session>>
               /\ UNCHANGED <<flow_context, last_completed>>
          ELSE /\ flow_context' = set_context(flow_context, "selected_datetime", new_datetime)
               /\ IF called
                  THEN /\ requests' = requests \cup
                            {Request(c, "updateAppointment", appointment_id, None, None, None)}
                       /\ UsesClient
                  ELSE UNCHANGED <<requests, session>>
               /\ node' = [node EXCEPT ![c] = "appointment_confirmed"]
               /\ result' = [result EXCEPT ![c] = Result("reschedule_to_new_time", "true", 0)]
               /\ last_completed' = [last_completed EXCEPT ![c] = "rescheduled"]
    /\ UNCHANGED <<active_bots, pc, state, task, api_client, flow_task,
                   outcome_evals, end_calls>>

\* reschedule_to_new_time: answer is what api_client.update_appointment gives
\* when the handler calls it (there is a client and an appointment_id in the
\* context).  An update that succeeded and the mock fallback after one that
\* did not both store the new time and lead to appointment_confirmed.
reschedule_to_new_time(c, new_datetime, answer) ==
    /\ Dispatch(c, "reschedule_to_new_time")
    /\ LET appointment_id == get_context("appointment_id", None)
           called == api_client # None /\ Truthy(appointment_id)
           updated == called /\ answer = "appointment"
       IN IF ~IsoParseable(ReplaceZ(new_datetime))
          THEN /\ node' = [node EXCEPT ![c] = "reschedule_new_time"]
               /\ result' = [result EXCEPT ![c] = Result("reschedule_to_new_time", "false", 3)]
               /\ UNCHANGED <<session, flow_context, requests, last_completed>>
          ELSE /\ IF called
                  THEN /\ requests' = requests \cup
                            {Request(c, "updateAppointment", appointment_id, None, None, None)}
                       /\ UsesClient
                  ELSE UNCHANGED <<requests, session>>
               /\ IF updated
                  THEN flow_context' = set_context(flow_context, "selected_datetime", new_datetime)
                  ELSE \* Fallback - use mock data
                       flow_context' = set_context(flow_context, "selected_datetime", new_datetime)
               /\ node' = [node EXCEPT ![c] = "appointment_confirmed"]
               /\ result' = [result EXCEPT ![c] = Result("reschedule_to_new_time", "true", 0)]
               /\ last_completed' = [last_completed EXCEPT ![c] = "rescheduled"]
    /\ UNCHANGED <<active_bots, pc, state, task, api_client, flow_task,
                   outcome_evals, end_calls>>

\* proceed_with_cancellation returning create_appointment_confirmed_node.
proceed_with_cancellation_to_appointment_confirmed(c) ==
    /\ Dispatch(c, "proceed_with_cancel")
    /\ LET appointment_id == get_context("appointment_id", None) IN
         IF api_client # None /\ Truthy(appointment_id)
         THEN /\ requests' = requests \cup
                   {Request(c, "cancelAppointment", appointment_id, None, None, None)}
              /\ UsesClient
         ELSE UNCHANGED <<requests, session>>
    /\ Goto(c, "proceed_with_cancel", None, "appointment_confirmed")
    /\ UNCHANGED <<task, flow_context>>

proceed_with_cancellation(c) ==
    /\ Dispatch(c, "proceed_with_cancel")
    /\ LET appointment_id == get_context("appointment_id", None) IN
         IF api_client # None /\ Truthy(appointment_id)
         THEN /\ requests' = requests \cup
                   {Request(c, "cancelAppointment", appointment_id, None, None, None)}
              /\ UsesClient
         ELSE UNCHANGED <<requests, session>>
    /\ Goto(c, "proceed_with_cancel", None, "cancellation_confirmed")
    /\ UNCHANGED <<task, flow_context>>

keep_appointment(c) ==
    /\ Dispatch(c, "keep_appointment")
    /\ Goto(c, "keep_appointment", None, "appointment_confirmed")
    /\ UNCHANGED <<session, task, flow_context, requests>>

\* product_inquiry_schema: the enum of next_action
NextActions == {"schedule", "more_questions", "done"}

\* handle_product_inquiry without its elif: whatever is not "schedule" ends the
\* conversation.
handle_product_inquiry_without_more_questions(c, next_action) ==
    /\ Dispatch(c, "product_inquiry_action")
    /\ /\ node' = [node EXCEPT ![c] =
                CASE next_action = "schedule" -> "service_type"
                  [] OTHER -> "end"]
         /\ task' = [task EXCEPT ![c] =
                IF next_action = "schedule" THEN @ ELSE "ending"]
         /\ result' = [result EXCEPT ![c] = Result("product_inquiry_action", next_action, 0)]
    /\ UNCHANGED <<active_bots, pc, state, session, api_client, flow_task,
                   flow_context, requests, outcome_evals, end_calls, last_completed>>

\* handle_product_inquiry; the end node's post_action end_conversation is the
\* flow manager's own: it queues the EndFrame on the manager's task.
handle_product_inquiry(c, next_action) ==
    /\ Dispatch(c, "product_inquiry_action")
    /\ /\ node' = [node EXCEPT ![c] =
                CASE next_action = "schedule" -> "service_type"
                  [] next_action = "more_questions" -> "product_info"
                  [] OTHER -> "end"]
         /\ task' = [task EXCEPT ![c] =
                IF next_action \in {"schedule", "more_questions"} THEN @ ELSE "ending"]
         /\ result' = [result EXCEPT ![c] = Result("product_inquiry_action", next_action, 0)]
    /\ UNCHANGED <<active_bots, pc, state, session, api_client, flow_task,
                   flow_context, requests, outcome_evals, end_calls, last_completed>>

\* end_conversation: clear_context(), then an EndFrame on the task get_task()
\* returns; a task that is no longer running ignores it.
end_conversation(c) ==
    /\ Dispatch(c, "end_conversation")
    /\ flow_context' = clear_context
    /\ task' = IF flow_task # None /\ task[flow_task] = "running"
               THEN [task EXCEPT ![flow_task] = "ending"]
               ELSE task
    /\ Goto(c, "end_conversation", None, Terminal)
    /\ UNCHANGED <<session, requests>>

(***************************************************************************)
(* The (args, bot) handlers of handlers/appointment_handlers.py, which keep *)
(* the call's data in bot.state, and the flow_config of appointment_flow.py *)
(* that names them.  An appointment dict is modelled by its id.             *)
(***************************************************************************)
\* appointment["confirmationNumber"] of the appointment with id a ("appt:<n>")
ConfirmationOf(a) == "WOD:" \o SubSeq(a, 6, Len(a))
\* The appointment the backend already holds, and its confirmation number.
ExistingAppointmentId == "appt:1001"
ExistingConfirmationNumber == ConfirmationOf(ExistingAppointmentId)

\* What a gateway call of a handler gives: None (absent), the appointment, or a
\* body without the keys the handler reads, on which the handler raises.
BotGatewayAnswers == {"absent", "appointment", "malformed"}

\* "functions" of each node of flow_config["nodes"], by node name.
FlowConfigFunctions(n) ==
    CASE n = "greeting" -> {"new_appointment", "reschedule_appointment",
                            "cancel_appointment"}
      [] n = "service_type" -> {"set_service_type"}
      [] n = "check_availability" -> {"check_calendar"}
      [] n = "collect_contact_info" -> {"save_contact_info"}
      [] n = "confirm_booking" -> {"confirm_and_book", "modify_details"}
      [] n = "appointment_confirmed" -> {"end_call"}
      [] n = "reschedule_policy_check" -> {"check_reschedule_policy"}
      [] n = "execute_reschedule" -> {"reschedule_to_new_time"}
      [] n = "cancel_policy_check" -> {"proceed_with_cancel", "keep_appointment"}
      [] OTHER -> {}

\* A bot.state handler returns (result, next node name); the gateway, when the
\* handler calls it, is the bot's own client.
Return(c, fn, flag, next) ==
    /\ node' = [node EXCEPT ![c] = next]
    /\ result' = [result EXCEPT ![c] = Result(fn, flag, 0)]
    /\ last_completed' = [last_completed EXCEPT ![c] = DomainAction(fn, flag, @)]
    /\ UNCHANGED <<active_bots, pc, task, api_client, flow_task, flow_context,
                   requests, outcome_evals, end_calls>>
CallsGateway(c) == session' = [session EXCEPT ![c] = "open"]

bot_handle_new_appointment(c) ==
    /\ Return(c, "new_appointment", None, "service_type")
    /\ UNCHANGED <<state, session>>

\* confirmation_number is args.get("confirmation_number"): None when not given
handle_reschedule(c, confirmation_number) ==
    /\ state' = [state EXCEPT ![c].confirmation_number = confirmation_number]
    /\ Return(c, "reschedule_appointment", None, "reschedule_policy_check")
    /\ UNCHANGED session

handle_cancel(c, confirmation_number) ==
    /\ state' = [state EXCEPT ![c].confirmation_number = confirmation_number]
    /\ Return(c, "cancel_appointment", None, "cancel_policy_check")
    /\ UNCHANGED session

set_service_type(c, service_type) ==
    /\ state' = [state EXCEPT ![c].service_type = service_type]
    /\ Return(c, "set_service_type", None, "check_availability")
    /\ UNCHANGED session

\* check_calendar: the first slot is selected when the answer has slots
check_calendar(c, answer) ==
    /\ CallsGateway(c)
    /\ IF answer.kind = "json" /\ answer.available /\ Len(answer.slots) > 0
       THEN /\ state' = [state EXCEPT ![c].selected_slot = answer.slots[1]]
            /\ Return(c, "check_calendar", "true", "collect_contact_info")
       ELSE /\ UNCHANGED state
            /\ Return(c, "check_calendar",
                      IF answer.kind = "malformed" THEN "error" ELSE "false",
                      "check_availability")

save_contact_info(c) ==
    /\ Return(c, "save_contact_info", None, "confirm_booking")
    /\ UNCHANGED <<state, session>>

\* confirm_and_book: answer is what create_appointment gives
confirm_and_book(c, answer) ==
    IF ~Truthy(state[c].selected_slot)
    THEN /\ Return(c, "confirm_and_book", "error", "check_availability")
         /\ UNCHANGED <<state, session>>
    ELSE /\ CallsGateway(c)
         /\ IF answer = "appointment"
            THEN /\ state' = [state EXCEPT
                       ![c].appointment = NewAppointmentId(c),
                       ![c].confirmation_number = ConfirmationOf(NewAppointmentId(c)),
                       ![c].outcome = "BOOKED"]
                 /\ Return(c, "confirm_and_book", "true", "appointment_confirmed")
            ELSE /\ UNCHANGED state
                 /\ Return(c, "confirm_and_book",
                           IF answer = "malformed" THEN "error" ELSE "false",
                           "check_availability")

\* handle_modification returning the name of its function for the node.
handle_modification_returns_function_name(c) ==
    /\ Return(c, "modify_details", "true", "modify_details")
    /\ UNCHANGED <<state, session>>

handle_modification(c) ==
    /\ Return(c, "modify_details", "true", "check_availability")
    /\ UNCHANGED <<state, session>>

end_call(c) ==
    /\ Return(c, "end_call", None, Terminal)
    /\ UNCHANGED <<state, session>>

\* calculate_hours_until of appointment_handlers.py, for a timestamp that
\* parses; on any other the function raises (callers test IsoParseable).
bot_calculate_hours_until(scheduled_time) ==
    HoursBetween(NowIso, ReplaceZ(scheduled_time))

\* check_reschedule_policy: answer is what get_appointment_by_confirmation
\* gives, scheduled_time the scheduledTime of the appointment found
check_reschedule_policy(c, arg_confirmation_number, answer, scheduled_time) ==
    LET confirmation_number ==
          IF Truthy(arg_confirmation_number) THEN arg_confirmation_number
          ELSE state[c].confirmation_number
    IN IF ~Truthy(confirmation_number)
       THEN /\ Return(c, "check_reschedule_policy", "error", "greeting")
            /\ UNCHANGED <<state, session>>
       ELSE /\ CallsGateway(c)
            /\ IF answer # "appointment"
               THEN /\ Return(c, "check_reschedule_policy",
                              IF answer = "malformed" THEN "error" ELSE "false", "greeting")
                    /\ UNCHANGED state
               ELSE IF ~IsoParseable(ReplaceZ(scheduled_time))
               THEN /\ Return(c, "check_reschedule_policy", "error", "greeting")
                    /\ UNCHANGED state
               ELSE /\ state' = [state EXCEPT
                          ![c].appointment_id = ExistingAppointmentId,
                          ![c].appointment = ExistingAppointmentId]
                    /\ Return(c, "check_reschedule_policy",
                              IF bot_calculate_hours_until(scheduled_time) < 24
                              THEN "true" ELSE "false",
                              "execute_reschedule")

\* datetime.strptime(f"{new_date} {new_time}", "%Y-%m-%d %H:%M") succeeds
StrptimeParses(s) ==
    /\ Len(s) = 16
    /\ IsoDate(SubSeq(s, 1, 10)) /\ SubSeq(s, 11, 11) = " "
    /\ IsDigits(SubSeq(s, 12, 13)) /\ SubSeq(s, 14, 14) = ":"
    /\ IsDigits(SubSeq(s, 15, 16))

\* reschedule_appointment: answer is what update_appointment gives
reschedule_appointment(c, new_date, new_time, answer) ==
    IF ~Truthy(state[c].appointment_id)
    THEN /\ Return(c, "reschedule_to_new_time", "error", "greeting")
         /\ UNCHANGED <<state, session>>
    ELSE IF ~StrptimeParses(new_date \o " " \o new_time)
    THEN /\ Return(c, "reschedule_to_new_time", "error", "execute_reschedule")
         /\ UNCHANGED <<state, session>>
    ELSE /\ CallsGateway(c)
         /\ IF answer = "appointment"
            THEN /\ state' = [state EXCEPT
                       ![c].appointment = state[c].appointment_id,
                       ![c].confirmation_number = ConfirmationOf(state[c].appointment_id),
                       ![c].outcome = "RESCHEDULED"]
                 /\ Return(c, "reschedule_to_new_time", "true", "appointment_confirmed")
            ELSE IF answer = "malformed"
            THEN \* updated["confirmationNumber"] raises after the body the
                 \* gateway gave is stored as the appointment
                 /\ state' = [state EXCEPT ![c].appointment = answer]
                 /\ Return(c, "reschedule_to_new_time", "error", "execute_reschedule")
            ELSE /\ UNCHANGED state
                 /\ Return(c, "reschedule_to_new_time", "false", "execute_reschedule")

\* cancel_appointment_handler: lookup is what get_appointment_by_confirmation
\* gives, answer what cancel_appointment gives
cancel_appointment_handler(c, arg_confirmation_number, lookup, answer) ==
    LET confirmation_number ==
          IF Truthy(arg_confirmation_number) THEN arg_confirmation_number
          ELSE state[c].confirmation_number
    IN IF ~Truthy(confirmation_number)
       THEN /\ Return(c, "proceed_with_cancel", "error", "greeting")
            /\ UNCHANGED <<state, session>>
       ELSE /\ CallsGateway(c)
            /\ IF lookup = "malformed"
               THEN /\ Return(c, "proceed_with_cancel", "error", "cancel_policy_check")
                    /\ UNCHANGED state
               ELSE IF lookup # "appointment"
               THEN /\ Return(c, "proceed_with_cancel", "false", "greeting")
                    /\ UNCHANGED state
               ELSE IF answer # "absent"
               THEN /\ state' = [state EXCEPT
                          ![c].appointment = ExistingAppointmentId,
                          ![c].outcome = "CANCELLED"]
                    /\ Return(c, "proceed_with_cancel", "true", "appointment_confirmed")
               ELSE /\ UNCHANGED state
                    /\ Return(c, "proceed_with_cancel", "false", "cancel_policy_check")

bot_keep_appointment(c) ==
    /\ state' = [state EXCEPT ![c].outcome = "NO_CHANGE"]
    /\ Return(c, "keep_appointment", "true", "appointment_confirmed")
    /\ UNCHANGED session

(***************************************************************************)
(* The system.  Spec: one call rings in and is served by a bot running the  *)
(* dynamic flow; callers and the gateway choose among all the inputs above. *)
(***************************************************************************)
Init ==
    /\ active_bots = {}
    /\ pc = [c \in Calls |-> "idle"]
    /\ state = [c \in Calls |-> InitialState]
    /\ session = [c \in Calls |-> None]
    /\ task = [c \in Calls |-> None]
    /\ node = [c \in Calls |-> None]
    /\ result = [c \in Calls |-> NoResult]
    /\ api_client = None
    /\ flow_task = None
    /\ flow_context = EmptyDict
    /\ requests = {}
    /\ outcome_evals = [c \in Calls |-> 0]
    /\ end_calls = 0
    /\ last_completed = [c \in Calls |-> None]

Session(c) ==
    \/ SpawnBot(c)
    \/ RunSetup(c)
    \/ RunSetupFails(c)
    \/ \E contact \in {None, ContactIdOf(PhoneOf[c])} : ParticipantJoined(c, contact)
    \/ ClientDisconnected(c)
    \/ RunnerReturns(c)
    \/ RunnerRaises(c)
    \/ RunFinally(c)
    \/ SpawnFinally(c)
    \/ EndCall(c)

Flow(c) ==
    \/ handle_new_appointment(c)
    \/ handle_reschedule_request(c)
    \/ handle_cancel_request(c)
    \/ handle_product_info_request(c)
    \/ \E service_type \in ServiceTypeEnum, issue_description \in IssueDescriptions :
         collect_service_type(c, service_type, issue_description)
    \/ \E customer_name \in CustomerNames(c), contact \in {None, ContactIdOf(PhoneOf[c])} :
         collect_customer_info(c, customer_name, contact)
    \/ \E answer \in AvailabilityAnswers, preferred_date \in PreferredDates,
          preferred_time \in PreferredTimes :
         check_availability_and_schedule(c, answer, preferred_date, preferred_time)
    \/ \E answer \in GatewayAnswers : confirm_and_book_appointment(c, answer)
    \/ lookup_and_check_reschedule(c)
    \/ lookup_and_check_cancel(c)
    \/ \E new_datetime \in NewDatetimes, answer \in GatewayAnswers :
         reschedule_to_new_time(c, new_datetime, answer)
    \/ proceed_with_cancellation(c)
    \/ keep_appointment(c)
    \/ \E next_action \in NextActions : handle_product_inquiry(c, next_action)
    \/ end_conversation(c)

\* The call of the one-call system.
TheCall == "CA1"

Next == Session(TheCall) \/ Flow(TheCall)

Spec == Init /\ [][Next]_vars

(***************************************************************************)
(* SpecAppt: one call served by a bot whose conversation follows the        *)
(* flow_config of create_appointment_flow: the flow starts at initial_node, *)
(* a node offers its "functions", and the node name a handler returns is    *)
(* the next node.                                                           *)
(***************************************************************************)
\* flow_config["initial_node"]
InitialNode == "greeting"

\* The flow of the call starts once the pipeline runs.
FlowStarts(c) ==
    /\ pc[c] = "running"
    /\ task[c] = "running"
    /\ node[c] = None
    /\ node' = [node EXCEPT ![c] = InitialNode]
    /\ UNCHANGED <<active_bots, pc, state, session, task, result, api_client,
                   flow_task, flow_context, requests, outcome_evals, end_calls,
                   last_completed>>

\* The function named fn is offered to the caller of call c.
Offered(c, fn) ==
    /\ pc[c] = "running"
    /\ task[c] = "running"
    /\ fn \in FlowConfigFunctions(node[c])

\* Arguments the model of the caller gives, and scheduledTime values of the
\* appointment found: 20 hours ahead, 72 hours ahead, not a timestamp.
ConfirmationArgs == {None, ExistingConfirmationNumber}
BotServiceTypes == {"REPAIR", "EMERGENCY"}
ScheduledTimes == {"2025-10-25T06:00:00", "2025-10-27T10:00:00Z", "soon"}
NewDates == {"2025-10-27", "tuesday"}
NewTimes == {"09:00"}

LifeCycle(c) ==
    \/ SpawnBot(c)
    \/ RunSetup(c)
    \/ RunSetupFails(c)
    \/ ClientDisconnected(c)
    \/ RunnerReturns(c)
    \/ RunnerRaises(c)
    \/ RunFinally(c)
    \/ SpawnFinally(c)
    \/ EndCall(c)

ApptFlow(c) ==
    \/ FlowStarts(c)
    \/ Offered(c, "new_appointment") /\ bot_handle_new_appointment(c)
    \/ \E confirmation_number \in ConfirmationArgs :
         Offered(c, "reschedule_appointment") /\ handle_reschedule(c, confirmation_number)
    \/ \E confirmation_number \in ConfirmationArgs :
         Offered(c, "cancel_appointment") /\ handle_cancel(c, confirmation_number)
    \/ \E service_type \in BotServiceTypes :
         Offered(c, "set_service_type") /\ set_service_type(c, service_type)
    \/ \E answer \in AvailabilityAnswers :
         Offered(c, "check_calendar") /\ check_calendar(c, answer)
    \/ Offered(c, "save_contact_info") /\ save_contact_info(c)
    \/ \E answer \in BotGatewayAnswers :
         Offered(c, "confirm_and_book") /\ confirm_and_book(c, answer)
    \/ Offered(c, "modify_details") /\ handle_modification(c)
    \/ Offered(c, "end_call") /\ end_call(c)
    \/ \E confirmation_number \in ConfirmationArgs, answer \in BotGatewayAnswers,
          scheduled_time \in ScheduledTimes :
         /\ Offered(c, "check_reschedule_policy")
         /\ check_reschedule_policy(c, confirmation_number, answer, scheduled_time)
    \/ \E new_date \in NewDates, new_time \in NewTimes, answer \in BotGatewayAnswers :
         /\ Offered(c, "reschedule_to_new_time")
         /\ reschedule_appointment(c, new_date, new_time, answer)
    \/ \E confirmation_number \in ConfirmationArgs, lookup \in BotGatewayAnswers,
          answer \in BotGatewayAnswers :
         /\ Offered(c, "proceed_with_cancel")
         /\ cancel_appointment_handler(c, confirmation_number, lookup, answer)
    \/ Offered(c, "keep_appointment") /\ bot_keep_appointment(c)

NextAppt == LifeCycle(TheCall) \/ ApptFlow(TheCall)

SpecAppt == Init /\ [][NextAppt]_vars

(***************************************************************************)
(* SpecTwoCalls: two calls ring in and are served concurrently by two bots  *)
(* of the one process, both running the dynamic flow.  Each caller gives    *)
(* their own name and asks for the same time; nobody posts to /end-call.    *)
(***************************************************************************)
OneSlot == [kind |-> "json", available |-> TRUE, slots |-> <<"2025-10-25T14:00:00">>]
NoSlot == [kind |-> "json", available |-> FALSE, slots |-> <<>>]

TwoCallSession(c) ==
    \/ SpawnBot(c)
    \/ RunSetup(c)
    \/ RunSetupFails(c)
    \/ \E contact \in {None, ContactIdOf(PhoneOf[c])} : ParticipantJoined(c, contact)
    \/ ClientDisconnected(c)
    \/ RunnerReturns(c)
    \/ RunnerRaises(c)
    \/ RunFinally(c)
    \/ SpawnFinally(c)

TwoCallFlow(c) ==
    \/ handle_new_appointment(c)
    \/ handle_reschedule_request(c)
    \/ handle_cancel_request(c)
    \/ handle_product_info_request(c)
    \/ collect_service_type(c, "repair", None)
    \/ \E contact \in {None, ContactIdOf(PhoneOf[c])} :
         collect_customer_info(c, NameOf[c], contact)
    \/ \E answer \in {OneSlot, NoSlot} :
         check_availability_and_schedule(c, answer, "2025-10-25", "14:00")
    \/ confirm_and_book_appointment(c, "appointment")
    \/ lookup_and_check_reschedule(c)
    \/ lookup_and_check_cancel(c)
    \/ \E new_datetime \in NewDatetimes, answer \in GatewayAnswers :
         reschedule_to_new_time(c, new_datetime, answer)
    \/ proceed_with_cancellation(c)
    \/ keep_appointment(c)
    \/ handle_product_inquiry(c, "done")
    \/ end_conversation(c)

NextTwoCalls == \E c \in Calls : TwoCallSession(c) \/ TwoCallFlow(c)

SpecTwoCalls == Init /\ [][NextTwoCalls]_vars

(***************************************************************************)
(* SpecLive: Spec with the scheduling the event loop gives: an awaited      *)
(* runner that has finished returns, and the finally clauses of run and     *)
(* spawn_bot execute.                                                       *)
(***************************************************************************)
SpecLive ==
    /\ Spec
    /\ WF_vars(RunnerReturns(TheCall))
    /\ WF_vars(RunFinally(TheCall))
    /\ WF_vars(SpawnFinally(TheCall))

(***************************************************************************)
(* Properties.                                                              *)
(***************************************************************************)
\* A call has ended: spawn_bot has returned.
Ended(c) == pc[c] = "done"

\* C1: each call reads only context values written during that same call:
\* every request a handler of a call sent to the gateway carries, in the
\* fields the handler read from the context, values of that call (its own
\* contact, its caller's name, an appointment created in that call).
EachCallReadsOwnContext ==
    \A r \in requests :
        /\ r.contactId \in {None, ContactIdOf(PhoneOf[r.call])}
        /\ r.customerName \in {None, "", NameOf[r.call]}
        /\ r.appointment_id \in {None, NewAppointmentId(r.call)}

\* C2: a call whose last completed domain action is a successful cancellation
\* and whose state holds a confirmation number ends with Outcome CANCELLED.
CancelledCallEndsCancelled ==
    \A c \in Calls :
        (Ended(c) /\ last_completed[c] = "cancelled"
            /\ Truthy(state[c].confirmation_number))
        => state[c].outcome = "CANCELLED"

\* C3: a call in which a reschedule completed successfully, with no
\* cancellation after it, ends with Outcome RESCHEDULED.
RescheduledCallEndsRescheduled ==
    \A c \in Calls :
        (Ended(c) /\ last_completed[c] = "rescheduled")
        => state[c].outcome = "RESCHEDULED"

\* C4: a call of the dynamic flow in which confirm_booking completed with
\* booked=True ends with Outcome BOOKED.
BookedCallEndsBooked ==
    \A c \in Calls :
        (Ended(c) /\ last_completed[c] = "booked")
        => state[c].outcome = "BOOKED"

\* C5 asks about a call with a completed cancellation and a later booking.
\* Under the flow configuration a completed domain action leaves the call at
\* appointment_confirmed, which offers end_call only, so no call has both.
AtMostOneDomainAction ==
    \A c \in Calls :
        last_completed[c] # None => node[c] \in {"appointment_confirmed", Terminal}

\* C6: a call in which the caller asked to cancel and then chose
\* keep_appointment ends with Outcome NO_CHANGE, whether or not a confirmation
\* number came with the cancel request.
KeptCallEndsNoChange ==
    \A c \in Calls :
        (Ended(c) /\ last_completed[c] = "kept")
        => state[c].outcome = "NO_CHANGE"

\* C7: a call that ends before any booking, reschedule, cancellation or keep
\* decision completed ends with Outcome NO_RESPONSE.
UnfinishedCallEndsNoResponse ==
    \A c \in Calls :
        (Ended(c) /\ last_completed[c] = None)
        => state[c].outcome = "NO_RESPONSE"

\* C8: however a call ends, the context has been cleared: no key written
\* during the call is readable once the call has ended.
ContextClearedAtCallEnd ==
    \A c \in Calls : Ended(c) => flow_context = EmptyDict

\* C9: cleanup runs on every exit path: once the pipeline has finished, was
\* cancelled, or setup or the pipeline raised, the outcome is eventually
\* determined, the gateway client closed and the call removed from active_bots.
ExitBegun(c) ==
    \/ pc[c] = "cleanup"
    \/ pc[c] = "running" /\ task[c] \in {"ending", "cancelled"}
CleanedUp(c) ==
    /\ pc[c] = "done"
    /\ c \notin active_bots
    /\ outcome_evals[c] >= 1
    /\ session[c] = None
CleanupOnEveryExit == \A c \in Calls : ExitBegun(c) ~> CleanedUp(c)
\* a disconnected call, cleaned up
DisconnectedCallCleanedUp ==
    \E c \in Calls : CleanedUp(c) /\ task[c] = "cancelled"

\* C10: determine_outcome is evaluated a single time for a call, whatever the
\* sequence of events, POST /end-call included.
OutcomeComputedOnce ==
    \A c \in Calls : outcome_evals[c] <= 1

\* Within one call the context key confirmation_number, once set, is not
\* written with another value.
ConfirmationNumberWrittenOnce ==
    [][("confirmation_number" \in DOMAIN flow_context
          /\ "confirmation_number" \in DOMAIN flow_context')
       => flow_context'["confirmation_number"] = flow_context["confirmation_number"]]_vars

\* C11: once the context key confirmation_number is set, only a successful
\* reschedule writes it again, and it is absent from the context once the call
\* has ended, by whatever path.
ConfirmationNumberAbsentAtCallEnd ==
    \A c \in Calls : Ended(c) => "confirmation_number" \notin DOMAIN flow_context

\* C12: only the functions of the active node are dispatched: a handler that
\* runs for a call is one of the functions of the node the call is at, a call
\* has one active node, and the first active node is the greeting node.
OnlyActiveNodeFunctionsRun ==
    [][\A c \in Calls :
         /\ result'[c] # result[c]
              => (node[c] # None /\ result'[c].fn \in NodeFunctions(node[c]))
         /\ (node[c] = None /\ node'[c] # None) => node'[c] = "start"]_vars
\* a handler of a later node has run
BookingHandlerRanAtItsNode ==
    /\ result[TheCall].fn = "confirm_booking"
    /\ node[TheCall] = "appointment_confirmed"

\* The nodes in the order of the flow graph: every edge of an acyclic graph
\* leads to a node further on.
NodeOrder(n) ==
    CASE n = "start" -> 0
      [] n = "product_info" -> 1
      [] n = "cancel_lookup" -> 1
      [] n = "cancel_decision" -> 2
      [] n = "reschedule_lookup" -> 3
      [] n = "reschedule_new_time" -> 4
      [] n = "service_type" -> 2
      [] n = "customer_info" -> 3
      [] n = "schedule_appointment" -> 4
      [] n = "no_availability" -> 5
      [] n = "confirm_appointment" -> 6
      [] n = "appointment_confirmed" -> 7
      [] n = "cancellation_confirmed" -> 7
      [] n = "end" -> 8
      [] OTHER -> 9
\* The two loops: no availability back to the availability check, and the
\* confirmation back to the schedule node.
ExplicitLoop(from, to) ==
    \/ from = "no_availability" /\ to \in {"no_availability", "schedule_appointment"}
    \/ from = "confirm_appointment" /\ to = "schedule_appointment"

\* C13: the node transitions the handlers produce are acyclic except for the
\* two explicit loops: a handler that returns leads the call to a node further
\* on in the graph, never back to its own node or to one already visited.
TransitionsAcyclicButTwoLoops ==
    [][\A c \in Calls :
         (/\ node[c] # None
          /\ result'[c] # result[c]
          /\ result'[c].flag # "raised")
         => \/ NodeOrder(node'[c]) > NodeOrder(node[c])
            \/ ExplicitLoop(node[c], node'[c])]_vars

\* The node each action of the greeting node leads to.
GreetingTarget(fn) ==
    CASE fn = "new_appointment" -> "service_type"
      [] fn = "reschedule_appointment" -> "reschedule_lookup"
      [] fn = "cancel_appointment" -> "cancel_lookup"
      [] fn = "product_info" -> "product_info"
      [] OTHER -> None

\* C14: the greeting node offers exactly four actions, each leads to its fixed
\* node (new_appointment to service_type, reschedule_appointment to
\* reschedule_lookup, cancel_appointment to cancel_lookup, product_info to
\* product_info) and none of them writes the context.
GreetingActionsFixed ==
    [][\A c \in Calls :
         (node[c] = "start" /\ result'[c] # result[c])
         => /\ NodeFunctions("start") = {"new_appointment", "reschedule_appointment",
                                         "cancel_appointment", "product_info"}
            /\ result'[c].fn \in NodeFunctions("start")
            /\ node'[c] = GreetingTarget(result'[c].fn)
            /\ flow_context' = flow_context]_vars
\* the caller asked to cancel at the greeting
CancelRequestedAtGreeting ==
    /\ result[TheCall].fn = "cancel_appointment"
    /\ node[TheCall] = "cancel_lookup"

\* The gateway's availability result holds at least one slot.
HasSlot(answer) ==
    answer.kind = "json" /\ answer.available /\ Len(answer.slots) > 0

AbsentAnswer == [kind |-> "absent", available |-> FALSE, slots |-> <<>>]

\* C16: when the gateway call of check_availability yields absent, the handler
\* falls back to locally generated availability: a time that is not one of
\* the booked times is selected and the call moves on to confirm_appointment,
\* so an unreachable gateway does not keep the caller in no_availability.
AbsentGatewayFallsBack ==
    \A c \in Calls :
        (pc[c] = "running" /\ node[c] \in {"schedule_appointment", "no_availability"})
        => \A d \in PreferredDates, t \in PreferredTimes \ BookedTimes :
             LET out == CheckAvailabilityOutcome(AbsentAnswer, d, t) IN
               /\ out.next = "confirm_appointment"
               /\ out.selected = MockSelectedDatetime(d, t)

\* customer_name, phone_number and selected_datetime are all in the context.
BookingDataPresent ==
    /\ Truthy(get_context("customer_name", None))
    /\ Truthy(get_context("phone_number", None))
    /\ Truthy(get_context("selected_datetime", None))

\* C17: confirm_booking leads to appointment_confirmed with confirmation_number
\* set whenever customer_name, phone_number and selected_datetime are all in
\* the context, whatever the gateway answers; when one is missing it returns
\* booked=False, leads back to schedule_appointment, sends no createAppointment
\* request and writes no confirmation_number.
ConfirmBookingBooksOrGoesBack ==
    [][\A c \in Calls :
         (result'[c] # result[c] /\ result'[c].fn = "confirm_booking")
         => IF BookingDataPresent
            THEN /\ result'[c].flag = "true"
                 /\ node'[c] = "appointment_confirmed"
                 /\ Truthy(Get(flow_context', "confirmation_number", None))
            ELSE /\ result'[c].flag = "false"
                 /\ node'[c] = "schedule_appointment"
                 /\ requests' = requests
                 /\ flow_context' = flow_context]_vars

\* C18: no flow handler raises to the flow engine: for every context a call
\* can reach, the local-fallback selected_datetime included, confirm_booking
\* returns a (result, next node) pair.
NoHandlerRaises ==
    \A c \in Calls : result[c].flag # "raised"


\* The node each function of cancel_decision leads to; the cancellation itself
\* has a node of its own.
CancelDecisionTarget(fn) ==
    CASE fn = "proceed_with_cancel" -> "cancellation_confirmed"
      [] fn = "reschedule_appointment" -> "reschedule_lookup"
      [] fn = "keep_appointment" -> "appointment_confirmed"
      [] OTHER -> "unknown"

\* C19 (as amended): in cancel_decision exactly three actions are offered;
\* proceed_with_cancel leads to cancellation_confirmed, reschedule leads to
\* reschedule_lookup and keep_appointment leads to appointment_confirmed.
CancelDecisionActions ==
    [][\A c \in Calls :
         (node[c] = "cancel_decision" /\ result'[c] # result[c])
         => /\ Cardinality(NodeFunctions(node[c])) = 3
            /\ result'[c].fn \in {"proceed_with_cancel", "reschedule_appointment",
                                  "keep_appointment"}
            /\ node'[c] = CancelDecisionTarget(result'[c].fn)]_vars

\* C19 (as stated): proceed_with_cancel, like keep_appointment, leads to
\* appointment_confirmed.
CancelDecisionLeadsToAppointmentConfirmed ==
    [][\A c \in Calls :
         (node[c] = "cancel_decision" /\ result'[c] # result[c])
         => /\ Cardinality(NodeFunctions(node[c])) = 3
            /\ result'[c].fn \in {"proceed_with_cancel", "reschedule_appointment",
                                  "keep_appointment"}
            /\ node'[c] = IF result'[c].fn = "reschedule_appointment"
                          THEN "reschedule_lookup"
                          ELSE "appointment_confirmed"]_vars

\* A call whose caller went ahead with the cancellation.
CancellationProceeded ==
    \E c \in Calls : /\ result[c].fn = "proceed_with_cancel"
                     /\ node[c] = "cancellation_confirmed"


\* C20: lookup_reschedule reports within_24_hours = true exactly when the
\* caller's existing appointment starts less than 24 hours from now, so a
\* caller whose appointment is 20 hours away gets the fee warning; the flow
\* proceeds to reschedule_new_time either way.
LookupRescheduleReportsWithin24h ==
    LET existing_appointment_time == "2025-10-25T06:00:00" IN  \* now + 20 hours
      \A c \in Calls :
          result[c].fn = "lookup_reschedule"
          => /\ node[c] = "reschedule_new_time"
             /\ (result[c].flag = "true")
                  <=> (calculate_hours_until(existing_appointment_time) < 24)


\* C21: lookup_cancel enters the fee-disclosing variant of cancel_decision
\* (within_24h true, the $75 fee) if and only if the caller's appointment is
\* within 24 hours: a caller whose appointment is 20 hours away is told the
\* fee.
LookupCancelDisclosesFeeWithin24h ==
    LET existing_appointment_time == "2025-10-25T06:00:00" IN  \* now + 20 hours
      \A c \in Calls :
          (result[c].fn = "lookup_cancel" /\ node[c] = "cancel_decision")
          => ((result[c].flag = "true")
                <=> (calculate_hours_until(existing_appointment_time) < 24))


\* C22: calculate_hours_until returns the sentinel 999 for every unparseable
\* timestamp and never raises, and the within-24-hours flag is true if and
\* only if the hours returned are below 24: whatever scheduledTime the
\* appointment found carries, the policy check reports within_24h and no
\* error, and for a malformed timestamp it reports within_24h = false.
HoursUntilNeverRaises ==
    [][\A confirmation_number \in ConfirmationArgs, scheduled_time \in ScheduledTimes :
         ( /\ Offered(TheCall, "check_reschedule_policy")
           /\ Truthy(IF Truthy(confirmation_number) THEN confirmation_number
                     ELSE state[TheCall].confirmation_number)
           /\ check_reschedule_policy(TheCall, confirmation_number, "appointment",
                                      scheduled_time) )
         => LET hours_until == IF IsoParseable(ReplaceZ(scheduled_time))
                               THEN bot_calculate_hours_until(scheduled_time)
                               ELSE 999
            IN /\ result'[TheCall].flag # "error"
               /\ (result'[TheCall].flag = "true") <=> (hours_until < 24)]_vars


(***************************************************************************)
(* SpecGateway: one call booking an appointment, the availability check     *)
(* going over HTTP: what api_client.check_availability gives is what        *)
(* _request makes of the gateway's response.                                *)
(***************************************************************************)
HttpStatuses == {200, 201, 202, 404, 500}
ContentTypes == {"application/json; charset=utf-8", "text/html"}
\* The body of a response: an {available, slots} object, a JSON object of
\* another shape, the JSON null, or text response.json() cannot parse.
SeveralSlots ==
    [kind |-> "json", available |-> TRUE,
     slots |-> <<"2025-10-26T09:00:00", "2025-10-26T14:00:00", "2025-10-27T14:00:00">>]
ResponseBodies ==
    {OneSlot, NoSlot, SeveralSlots,
     [kind |-> "malformed", available |-> FALSE, slots |-> <<>>],
     [kind |-> "null", available |-> FALSE, slots |-> <<>>],
     [kind |-> "invalid", available |-> FALSE, slots |-> <<>>]}
\* What session.request does: it raises (outcome "error": connection refused,
\* timeout), or there is a response.
HttpResponses ==
    {[outcome |-> "error", status |-> 500, content_type |-> "text/html",
      body |-> [kind |-> "invalid", available |-> FALSE, slots |-> <<>>]]}
    \cup {[outcome |-> "response", status |-> s, content_type |-> t, body |-> b] :
             s \in HttpStatuses, t \in ContentTypes, b \in ResponseBodies}

\* WorldOfDoorsAPIClient._request: the data of the response, or None.
WorldOfDoorsAPIClient_request(response) ==
    IF response.outcome = "error" THEN AbsentAnswer
    ELSE IF response.status \in {200, 201}
    THEN IF Contains("application/json", response.content_type)
         THEN IF response.body.kind \in {"invalid", "null"}
              THEN AbsentAnswer      \* json() raised, or data is None
              ELSE response.body
         ELSE AbsentAnswer
    ELSE AbsentAnswer

GatewayFlow(c) ==
    \/ handle_new_appointment(c)
    \/ \E service_type \in ServiceTypeEnum, issue_description \in IssueDescriptions :
         collect_service_type(c, service_type, issue_description)
    \/ \E customer_name \in CustomerNames(c), contact \in {None, ContactIdOf(PhoneOf[c])} :
         collect_customer_info(c, customer_name, contact)
    \/ \E response \in HttpResponses, preferred_date \in PreferredDates,
          preferred_time \in PreferredTimes :
         check_availability_and_schedule(c, WorldOfDoorsAPIClient_request(response),
                                         preferred_date, preferred_time)
    \/ \E answer \in GatewayAnswers : confirm_and_book_appointment(c, answer)
    \/ end_conversation(c)

NextGateway == Session(TheCall) \/ GatewayFlow(TheCall)

SpecGateway == Init /\ [][NextGateway]_vars

\* The response is a success: a 2xx status and a JSON body.
IsSuccess(response) ==
    /\ response.outcome = "response"
    /\ response.status \in 200..299
    /\ Contains("application/json", response.content_type)
    /\ response.body.kind \in {"json", "malformed"}

\* C23: a gateway operation returns absent on any failure and never raises,
\* and every response with a 2xx status and a JSON body is returned as a
\* result, all others as absent: whatever the response, check_availability
\* acts as it does on the body of a success, and as on absent otherwise.
SuccessIsAny2xxWithJson ==
    [][\A response \in HttpResponses, preferred_date \in PreferredDates,
          preferred_time \in PreferredTimes :
         check_availability_and_schedule(TheCall,
             WorldOfDoorsAPIClient_request(response), preferred_date, preferred_time)
         => check_availability_and_schedule(TheCall,
                IF IsSuccess(response) THEN response.body ELSE AbsentAnswer,
                preferred_date, preferred_time)]_vars


\* C24: the serviceType sent in every createAppointment request is one of
\* REPAIR, INSTALLATION, MAINTENANCE, EMERGENCY, for every service_type the
\* collect_service_type schema admits.
ServiceTypeSentIsBackendEnum ==
    \A r \in requests :
        r.op = "createAppointment"
        => r.serviceType \in {"REPAIR", "INSTALLATION", "MAINTENANCE", "EMERGENCY"}


(***************************************************************************)
(* The function schemas of the dynamic flow and the arguments their         *)
(* handlers read.                                                           *)
(***************************************************************************)
\* required=[...] of the FlowsFunctionSchema named fn
Required(fn) ==
    CASE fn \in {"reschedule_appointment", "cancel_appointment",
                 "lookup_reschedule", "lookup_cancel"}
              -> {"customer_name", "phone_number"}
      [] fn = "collect_service_type" -> {"service_type"}
      [] fn = "collect_customer_info"
              -> {"customer_name", "phone_number", "service_address"}
      [] fn = "check_availability" -> {"preferred_date", "preferred_time"}
      [] fn = "confirm_booking" -> {"appointment_time"}
      [] fn = "reschedule_to_new_time" -> {"new_datetime"}
      [] fn = "product_inquiry_action" -> {"next_action"}
      [] OTHER -> {}

\* The arguments the handler of fn reads as args[...]; those it reads with
\* args.get(...) may be missing.
ArgsLookups(fn) ==
    CASE fn = "collect_service_type" -> {"service_type"}
      [] fn = "collect_customer_info"
              -> {"customer_name", "phone_number", "service_address"}
      [] fn = "check_availability" -> {"preferred_date", "preferred_time"}
      [] fn = "reschedule_to_new_time" -> {"new_datetime"}
      [] fn = "product_inquiry_action" -> {"next_action"}
      [] OTHER -> {}

\* C25: for every action of every node a call reaches, the arguments the
\* action's schema declares required are exactly those its handler reads as
\* mandatory.
RequiredArgumentsAreTheMandatoryOnes ==
    \A c \in Calls :
        (pc[c] = "running" /\ node[c] # None)
        => \A fn \in NodeFunctions(node[c]) : Required(fn) = ArgsLookups(fn)


\* C26: reschedule_to_new_time leads to appointment_confirmed and stores the
\* new time as selected_datetime for every parseable new_datetime, whether the
\* gateway update succeeds or not; for an unparseable new_datetime it stays in
\* reschedule_new_time with available=False and leaves the context unchanged.
RescheduleConfirmsEveryParseableTime ==
    [][\A c \in Calls, new_datetime \in NewDatetimes, answer \in GatewayAnswers :
         reschedule_to_new_time(c, new_datetime, answer)
         => IF IsoParseable(ReplaceZ(new_datetime))
            THEN /\ node'[c] = "appointment_confirmed"
                 /\ result'[c].flag = "true"
                 /\ Get(flow_context', "selected_datetime", None) = new_datetime
            ELSE /\ node'[c] = "reschedule_new_time"
                 /\ result'[c].flag = "false"
                 /\ flow_context' = flow_context]_vars

\* A call rescheduled through the gateway: its update request was sent.
RescheduledThroughGateway ==
    \E c \in Calls :
        /\ result[c].fn = "reschedule_to_new_time"
        /\ result[c].flag = "true"
        /\ node[c] = "appointment_confirmed"
        /\ \E r \in requests : r.call = c /\ r.op = "updateAppointment"


\* C27: the single-target actions lead to their node whatever the arguments
\* and whatever the gateway answers: collect_service_type to customer_info,
\* collect_customer_info to schedule_appointment (also when the contact could
\* not be looked up or created, and then contact_id is not written),
\* lookup_reschedule to reschedule_new_time, lookup_cancel to cancel_decision.
SingleTargetActions ==
    [][\A c \in Calls :
         /\ \A service_type \in ServiceTypeEnum, issue_description \in IssueDescriptions :
              collect_service_type(c, service_type, issue_description)
              => node'[c] = "customer_info"
         /\ \A customer_name \in CustomerNames(c),
               contact \in {None, ContactIdOf(PhoneOf[c])} :
              collect_customer_info(c, customer_name, contact)
              => /\ node'[c] = "schedule_appointment"
                 /\ ~Truthy(contact)
                    => Get(flow_context', "contact_id", "unwritten")
                         = Get(flow_context, "contact_id", "unwritten")
         /\ lookup_and_check_reschedule(c) => node'[c] = "reschedule_new_time"
         /\ lookup_and_check_cancel(c) => node'[c] = "cancel_decision"]_vars

\* Customer information was collected with a gateway client that gave no
\* contact, and the call went on to scheduling without a contact_id.
CustomerInfoCollectedWithoutContact ==
    \E c \in Calls :
        /\ result[c].fn = "collect_customer_info"
        /\ node[c] = "schedule_appointment"
        /\ api_client # None
        /\ "contact_id" \notin DOMAIN flow_context


\* C28: product_inquiry_action leads to service_type for next_action =
\* schedule, to product_info for more_questions and to the end node for done;
\* the end node exposes no actions; the only action whose handler returns the
\* terminal sentinel is end_conversation, and after it no further action is
\* dispatched in the session.
ProductInquiryAndTermination ==
    [][\A c \in Calls :
         /\ \A next_action \in NextActions :
              handle_product_inquiry(c, next_action)
              => node'[c] = CASE next_action = "schedule" -> "service_type"
                              [] next_action = "more_questions" -> "product_info"
                              [] next_action = "done" -> "end"
         /\ node[c] = "end" => (NodeFunctions(node[c]) = {} /\ result'[c] = result[c])
         /\ (node[c] # Terminal /\ node'[c] = Terminal)
            => result'[c].fn = "end_conversation"
         /\ node[c] = Terminal => (result'[c] = result[c] /\ node'[c] = Terminal)]_vars

\* The caller had more questions about the products and was answered again.
MoreQuestionsAnswered ==
    \E c \in Calls : /\ result[c].fn = "product_inquiry_action"
                     /\ result[c].flag = "more_questions"
                     /\ node[c] = "product_info"


\* C29: from every node a call reaches there is a dispatchable action (or the
\* node is terminal) and some sequence of actions leads from it to the end of
\* the call, whatever the gateway answers.  A sequence of actions that ends
\* the call begins with an action that changes something: at every node of a
\* running conversation some action of the flow must lead on.
SomeActionLeadsOn ==
    \A c \in Calls :
        (pc[c] = "running" /\ task[c] = "running" /\ node[c] \notin {None, Terminal})
        => ENABLED <<Flow(c)>>_vars


\* C30: when an availability check finds no slot the flow moves to
\* no_availability with exactly 4 alternative times offered, on every branch
\* of check_availability (gateway result and local fallback).
NoSlotOffersFourAlternatives ==
    \A c \in Calls :
        (result[c].fn = "check_availability" /\ result[c].flag = "false")
        => (node[c] = "no_availability" /\ result[c].alternatives = 4)


\* Keys and values the round trip is tried with on every context a call
\* reaches: keys the handlers write, one no handler writes.
RoundTripKeys == {"customer_name", "selected_datetime", "confirmation_number", "memo"}
RoundTripValues == {"2025-10-27T10:00:00", "", None}

\* C31: after set_context(k, v), get_context(k) returns v (the other keys
\* keep their values) until k is set again or the context is cleared; after
\* clear_context(), get_context(k, default) returns default for every key
\* that was set.  No step loses a key that was set except by clearing.
ContextRoundTrip ==
    [][/\ \A k \in RoundTripKeys, v \in RoundTripValues :
            LET after == set_context(flow_context, k, v) IN
              /\ Get(after, k, "default") = v
              /\ \A other \in DOMAIN flow_context \ {k} :
                     Get(after, other, "default") = flow_context[other]
       /\ \A k \in DOMAIN flow_context : Get(clear_context, k, "default") = "default"
       /\ \/ flow_context' = clear_context
          \/ DOMAIN flow_context \subseteq DOMAIN flow_context']_vars

\* The context holds the name and the time two handlers of the call have set.
ContextHoldsWhatWasSet ==
    /\ node[TheCall] = "confirm_appointment"
    /\ get_context("selected_datetime", None) = "2025-10-25T14:00:00"
    /\ get_context("customer_name", None) = NameOf[TheCall]


\* C32: POST /end-call/{call_sid} for a call in active_bots ends that call's
\* session: when the request has been served the call's pipeline task is no
\* longer running (its run then returns and the entry leaves active_bots).
EndCallStopsTheTask ==
    [][\A c \in Calls : EndCall(c) => task'[c] # "running"]_vars


\* C33: proceed_with_cancel never issues a cancelAppointment request, and
\* reschedule_to_new_time never an updateAppointment request, for an
\* appointment_id that a different call wrote: every such request of a call
\* names the appointment that call itself created.
RequestsNameOwnAppointment ==
    \A r \in requests :
        r.op \in {"cancelAppointment", "updateAppointment"}
        => r.appointment_id = NewAppointmentId(r.call)


\* C34: end_conversation in a call session queues the EndFrame on the
\* pipeline task of that same session; with two sessions set up concurrently,
\* ending one never queues the EndFrame on the other session's task.
EndFrameOnOwnTask ==
    [][\A c \in Calls :
         end_conversation(c)
         => /\ task'[c] = "ending"
            /\ \A other \in Calls \ {c} : task'[other] = task[other]]_vars


(***************************************************************************)
(* SpecWebhook: Twilio posts /inbound-call several times for one CallSid    *)
(* (retries, duplicates); each request is a coroutine of the one event      *)
(* loop.  Here pc holds, per request, where handle_inbound_call and the     *)
(* spawn_bot task it creates stand; the bot's conversation itself is the    *)
(* await bot.run() between spawn_bot's registration and its finally.        *)
(***************************************************************************)
MaxWebhooks == 3
\* The duplicate requests, all carrying CallSid TheCall.
Webhooks == 1..MaxWebhooks

InitWebhook ==
    /\ active_bots = {}
    /\ pc = [w \in Webhooks |-> "received"]
    /\ state = [c \in Calls |-> InitialState]
    /\ session = [c \in Calls |-> None]
    /\ task = [c \in Calls |-> None]
    /\ node = [c \in Calls |-> None]
    /\ result = [c \in Calls |-> NoResult]
    /\ api_client = None
    /\ flow_task = None
    /\ flow_context = EmptyDict
    /\ requests = {}
    /\ outcome_evals = [c \in Calls |-> 0]
    /\ end_calls = 0
    /\ last_completed = [c \in Calls |-> None]

\* What no step of a webhook request or of spawn_bot's own body changes.
bot_vars == <<state, session, task, node, result, api_client, flow_task,
              flow_context, requests, outcome_evals, end_calls, last_completed>>

\* handle_inbound_call up to `await configure(...)`: a CallSid with an active
\* bot is skipped with an empty response.
handle_inbound_call_checks(w) ==
    /\ pc[w] = "received"
    /\ pc' = [pc EXCEPT ![w] = IF TheCall \in active_bots THEN "skipped"
                                ELSE "configuring"]
    /\ UNCHANGED <<active_bots, bot_vars>>

\* configure raises, or gives no SIP endpoint: HTTP 500, no bot.
handle_inbound_call_fails(w) ==
    /\ pc[w] = "configuring"
    /\ pc' = [pc EXCEPT ![w] = "failed"]
    /\ UNCHANGED <<active_bots, bot_vars>>

\* handle_inbound_call after configure returned: the second look at
\* active_bots, asyncio.create_task(spawn_bot(...)), and the TwiML response.
handle_inbound_call_spawns(w) ==
    /\ pc[w] = "configuring"
    /\ pc' = [pc EXCEPT ![w] = IF TheCall \notin active_bots THEN "task_created"
                                ELSE "answered"]
    /\ UNCHANGED <<active_bots, bot_vars>>

\* The task created runs spawn_bot: the bot is constructed and registered, and
\* bot.run() is awaited.
spawn_bot_starts(w) ==
    /\ pc[w] = "task_created"
    /\ active_bots' = active_bots \cup {TheCall}
    /\ pc' = [pc EXCEPT ![w] = "bot_running"]
    /\ UNCHANGED bot_vars

\* bot.run() has returned or raised: spawn_bot's finally deletes the entry of
\* the CallSid, if there is one.
spawn_bot_finally(w) ==
    /\ pc[w] = "bot_running"
    /\ active_bots' = active_bots \ {TheCall}
    /\ pc' = [pc EXCEPT ![w] = "done"]
    /\ UNCHANGED bot_vars

NextWebhook ==
    \E w \in Webhooks :
        \/ handle_inbound_call_checks(w)
        \/ handle_inbound_call_fails(w)
        \/ handle_inbound_call_spawns(w)
        \/ spawn_bot_starts(w)
        \/ spawn_bot_finally(w)

SpecWebhook == InitWebhook /\ [][NextWebhook]_vars

\* C35: at most one bot is ever spawned per CallSid: however the duplicate
\* /inbound-call requests of one CallSid interleave, at most one spawn_bot for
\* it is running at a time.
AtMostOneBotPerCallSid ==
    Cardinality({w \in Webhooks : pc[w] = "bot_running"}) <= 1


\* C36: with the gateway reachable, whenever proceed_with_cancel has completed
\* and the flow is at cancellation_confirmed, a cancelAppointment request of
\* that call has been issued to the gateway; whenever reschedule_to_new_time
\* has completed and the flow is at appointment_confirmed, an
\* updateAppointment request of that call has been issued.
ConfirmedChangeWasRequested ==
    \A c \in Calls :
        api_client # None =>
          /\ (result[c].fn = "proceed_with_cancel" /\ node[c] = "cancellation_confirmed")
                => \E r \in requests : r.call = c /\ r.op = "cancelAppointment"
          /\ (result[c].fn = "reschedule_to_new_time" /\ node[c] = "appointment_confirmed")
                => \E r \in requests : r.call = c /\ r.op = "updateAppointment"


\* C37: the handlers of appointment_handlers.py record a booking, a reschedule
\* or a cancellation in bot.state (outcome, appointment, confirmation_number)
\* only when the gateway call returned a result: when the gateway answers
\* absent, the handler raises (its result is an error) or a precondition is
\* missing, the three keys are unchanged and the node returned is a retry node.
RetryNodes == {"check_availability", "execute_reschedule", "cancel_policy_check",
               "greeting"}
RecordKeysUnchanged(c) ==
    /\ state'[c].outcome = state[c].outcome
    /\ state'[c].appointment = state[c].appointment
    /\ state'[c].confirmation_number = state[c].confirmation_number
FailedChangeLeavesRecordAlone ==
    [][\A c \in Calls :
         /\ \A answer \in BotGatewayAnswers :
              (confirm_and_book(c, answer)
                 /\ (answer = "absent" \/ result'[c].flag = "error"))
              => RecordKeysUnchanged(c) /\ node'[c] \in RetryNodes
         /\ \A cn \in ConfirmationArgs, answer \in BotGatewayAnswers,
               scheduled_time \in ScheduledTimes :
              (check_reschedule_policy(c, cn, answer, scheduled_time)
                 /\ (answer = "absent" \/ result'[c].flag = "error"))
              => RecordKeysUnchanged(c) /\ node'[c] \in RetryNodes
         /\ \A new_date \in NewDates, new_time \in NewTimes, answer \in BotGatewayAnswers :
              (reschedule_appointment(c, new_date, new_time, answer)
                 /\ (answer = "absent" \/ result'[c].flag = "error"))
              => RecordKeysUnchanged(c) /\ node'[c] \in RetryNodes
         /\ \A cn \in ConfirmationArgs, lookup \in BotGatewayAnswers,
               answer \in BotGatewayAnswers :
              (cancel_appointment_handler(c, cn, lookup, answer)
                 /\ (lookup = "absent" \/ answer = "absent" \/ result'[c].flag = "error"))
              => RecordKeysUnchanged(c) /\ node'[c] \in RetryNodes]_vars


\* The names of flow_config["nodes"].
FlowConfigNodes ==
    {"greeting", "service_type", "check_availability", "collect_contact_info",
     "confirm_booking", "appointment_confirmed", "reschedule_policy_check",
     "execute_reschedule", "cancel_policy_check"}

\* "transitions" of each node of flow_config["nodes"]: function name -> node
\* name, None for the end of the flow.
FlowConfigTransitions(n) ==
    CASE n = "greeting" ->
           [fn \in {"new_appointment", "reschedule_appointment", "cancel_appointment"} |->
              CASE fn = "new_appointment" -> "service_type"
                [] fn = "reschedule_appointment" -> "reschedule_policy_check"
                [] OTHER -> "cancel_policy_check"]
      [] n = "service_type" -> [fn \in {"set_service_type"} |-> "check_availability"]
      [] n = "check_availability" -> [fn \in {"check_calendar"} |-> "collect_contact_info"]
      [] n = "collect_contact_info" -> [fn \in {"save_contact_info"} |-> "confirm_booking"]
      [] n = "confirm_booking" ->
           [fn \in {"confirm_and_book", "modify_details"} |->
              IF fn = "confirm_and_book" THEN "appointment_confirmed"
              ELSE "check_availability"]
      [] n = "appointment_confirmed" -> [fn \in {"end_call"} |-> None]
      [] n = "reschedule_policy_check" ->
           [fn \in {"check_reschedule_policy"} |-> "execute_reschedule"]
      [] n = "execute_reschedule" ->
           [fn \in {"reschedule_to_new_time"} |-> "appointment_confirmed"]
      [] n = "cancel_policy_check" ->
           [fn \in {"proceed_with_cancel", "keep_appointment"} |-> "appointment_confirmed"]
      [] OTHER -> [fn \in {} |-> None]

\* The nodes the transitions lead to from the nodes of S, S included.
RECURSIVE ReachableNodes(_)
ReachableNodes(S) ==
    LET step == S \cup {FlowConfigTransitions(n)[fn] :
                          <<n, fn>> \in {p \in S \X UNION {FlowConfigFunctions(m) : m \in S} :
                                            p[2] \in DOMAIN FlowConfigTransitions(p[1])}}
        nodes == step \ {None}
    IN IF nodes = S THEN S ELSE ReachableNodes(nodes)

\* C38: in the flow of create_appointment_flow, the node every handler returns
\* is the end of the flow or a node of flow_config["nodes"], every function a
\* node lists has an entry in the node's transitions, and every node is
\* reachable from the initial node.
AppointmentFlowIsClosed ==
    /\ \A c \in Calls : node[c] \in FlowConfigNodes \cup {None, Terminal}
    /\ \A n \in FlowConfigNodes :
         /\ FlowConfigFunctions(n) \subseteq DOMAIN FlowConfigTransitions(n)
         /\ \A fn \in FlowConfigFunctions(n) :
              FlowConfigTransitions(n)[fn] \in FlowConfigNodes \cup {None}
    /\ ReachableNodes({InitialNode}) = FlowConfigNodes

\* A handler has returned to a node that no transition of the node it ran at
\* names: confirm_and_book back to check_availability.
HandlerReturnedOffTheTable ==
    /\ result[TheCall].fn = "confirm_and_book"
    /\ node[TheCall] = "check_availability"
    /\ state[TheCall].selected_slot # None


\* C39: when the gateway gives check_availability a non-empty slot list, the
\* slot selected is the first of the list whose start contains preferred_time,
\* or the first of the list when none does, and the selected_datetime stored
\* is that slot's start; when no slot is available, the selected_datetime
\* stored before is left as it was.
\* What api_client.check_availability can give, over all the responses.
CheckAvailabilityResults ==
    {WorldOfDoorsAPIClient_request(response) : response \in HttpResponses}
\* Those with a non-empty slot list.
SlotListResults ==
    {answer \in CheckAvailabilityResults : answer.kind = "json" /\ Len(answer.slots) > 0}
\* slot is the first of slots whose start contains preferred_time, or the
\* first of slots when no start does.
IsFirstMatching(slot, slots, preferred_time) ==
    \E i \in 1..Len(slots) :
        /\ slot = slots[i]
        /\ IF \E j \in 1..Len(slots) : Contains(preferred_time, slots[j])
           THEN /\ Contains(preferred_time, slots[i])
                /\ \A j \in 1..(i - 1) : ~Contains(preferred_time, slots[j])
           ELSE i = 1
FirstMatchingSlotIsStored ==
    [][("check_availability" \in NodeFunctions(node[TheCall])
          /\ result'[TheCall].fn = "check_availability") =>
       /\ (api_client # None /\ result'[TheCall].flag = "true") =>
            \A answer \in SlotListResults, preferred_date \in PreferredDates,
               preferred_time \in PreferredTimes :
              check_availability_and_schedule(TheCall, answer, preferred_date,
                                              preferred_time)
              => IsFirstMatching(flow_context'["selected_datetime"], answer.slots,
                                 preferred_time)
       /\ result'[TheCall].flag = "false" =>
            ((\E answer \in CheckAvailabilityResults, preferred_date \in PreferredDates,
                 preferred_time \in PreferredTimes :
                check_availability_and_schedule(TheCall, answer, preferred_date,
                                                preferred_time))
             => /\ ("selected_datetime" \in DOMAIN flow_context')
                     <=> ("selected_datetime" \in DOMAIN flow_context)
                /\ Get(flow_context', "selected_datetime", None)
                     = Get(flow_context, "selected_datetime", None))]_vars
\* the second of three slots, the first of two that match 14:00, was selected
FirstOfTwoMatchingSlotsStored ==
    /\ result[TheCall] = Result("check_availability", "true", 0)
    /\ Get(flow_context, "selected_datetime", None) = "2025-10-26T14:00:00"


\* C40: whenever confirmation_number is present in the session context,
\* appointment_id is present too, and both are those of the appointment one
\* confirm_booking created.
ConfirmationNumberComesWithAppointmentId ==
    "confirmation_number" \in DOMAIN flow_context
    => /\ "appointment_id" \in DOMAIN flow_context
       /\ \E c \in Calls :
            /\ flow_context["appointment_id"] = NewAppointmentId(c)
            /\ flow_context["confirmation_number"] = NewConfirmationNumber(c)

====
